---- MODULE Spec2Model ----
(***************************************************************************)
(* A model of the command tree and flag scoping engine of cli-go           *)
(* (src/cmd.go, second listing, lines 476-1273).                           *)
(*                                                                         *)
(* Strings are sequences of one-character strings, so that Name(),         *)
(* strings.HasPrefix, strings.Contains, len(s) and s[2:] are computed as   *)
(* the code computes them.  A nil pointer to a flag set is the record      *)
(* NilSet; calling into pflag through a nil *FlagSet is a run-time panic.  *)
(***************************************************************************)
EXTENDS Integers, Sequences, FiniteSets, TLC

VARIABLES
    parent,        \* Cmd.parent            : node -> node or NoCmd
    commands,      \* Cmd.commands          : node -> sequence of nodes
    isSortedCmds,  \* Cmd.isSortedCmds      : node -> BOOLEAN
    maxLength,     \* Cmd.maxLength         : node -> [Use, Path, Name]
    normFn,        \* Cmd.flags.GlobalNormalizeFn : node -> function tag or NoFn
    calledAs,      \* Cmd.calledAs.Name     : node -> string
    full,          \* Cmd.flags.Full        : node -> flag set or NilSet
    global,        \* Cmd.flags.Global      : node -> flag set or NilSet
    parentsGlobal, \* Cmd.flags.ParentsGlobal : node -> flag set or NilSet
    commandLine,   \* pflag.CommandLine, the process-wide flag set
    changed,       \* the flags whose Flag.Changed is true
    status,        \* "running", or how the process died: "panic", "overflow"
    lifecycle,     \* Cmd.lifecycle          : node -> the hooks that are set
    exec,          \* the execution of the resolved command's hooks
    op,            \* the call that produced this state, with what it returned
    hist           \* what the application did so far (per node bookkeeping)

vars == << parent, commands, isSortedCmds, maxLength, normFn, calledAs,
           full, global, parentsGlobal, commandLine, changed, status,
           lifecycle, exec, op, hist >>

treeVars == << parent, commands, isSortedCmds, maxLength, normFn, calledAs >>
flagVars == << full, global, parentsGlobal, commandLine, changed >>
runVars == << lifecycle, exec >>

-----------------------------------------------------------------------------
(* Bounds of the model *)

\* the longest argument list handed to Add or to Remove
MaxCmds == 2
\* how many commands the application hands to Add over a run
MaxAdds == 2
\* the longest token list handed to stripFlags
MaxArgs == 3
\* how many commands the parent of the long child lists is handed over a run
MaxList == 7

-----------------------------------------------------------------------------
(* Strings *)

\* the characters the model's strings use, in byte order
CharOrder == << " ", "-", ".", "=", "a", "b", "e", "f", "i", "l", "n", "o",
                "p", "r", "s", "t", "u", "v", "x" >>

Ord(ch) == CHOOSE i \in 1..Len(CharOrder) : CharOrder[i] = ch

\* strings.Index(s, ch) + 1, and 0 when ch does not occur
IndexOf(s, ch) ==
    IF \E i \in 1..Len(s) : s[i] = ch
    THEN CHOOSE i \in 1..Len(s) : s[i] = ch /\ \A j \in 1..(i - 1) : s[j] # ch
    ELSE 0

Contains(s, ch) == \E i \in 1..Len(s) : s[i] = ch

HasPrefix(s, p) == Len(s) >= Len(p) /\ SubSeq(s, 1, Len(p)) = p

\* s[n:] of Go, n counted from 0
Tail_n(s, n) == SubSeq(s, n + 1, Len(s))

\* a < b on Go strings: bytewise lexicographic
RECURSIVE StrLess(_, _)
StrLess(a, b) ==
    IF b = << >> THEN FALSE
    ELSE IF a = << >> THEN TRUE
    ELSE IF Ord(a[1]) # Ord(b[1]) THEN Ord(a[1]) < Ord(b[1])
    ELSE StrLess(Tail(a), Tail(b))

Max(a, b) == IF a > b THEN a ELSE b

-----------------------------------------------------------------------------
(* The commands the application builds *)

Nodes == {"n1", "n2", "n3", "n4"}
NoCmd == "nil"
NoFn == "nil"
NormFns == {"fnA", "fnB"}

\* Cmd.Use: "r", "run f", "run" and "top".  n2 and n3 have the name "run",
\* and the name of n1 is an alias of n2
Use ==
    [n \in Nodes |->
        CASE n = "n1" -> << "r" >>
          [] n = "n2" -> << "r", "u", "n", " ", "f" >>
          [] n = "n3" -> << "r", "u", "n" >>
          [] n = "n4" -> << "t", "o", "p" >>]

\* Cmd.Aliases
Aliases ==
    [n \in Nodes |->
        CASE n = "n1" -> {}
          [] n = "n2" -> {<< "r" >>}
          [] n = "n3" -> {<< "b" >>}
          [] n = "n4" -> {}]

\* the commands of the tree the application builds freely; n4 is the parent
\* of the long child lists
TreeNodes == {"n1", "n2", "n3"}

Name(c) ==
    LET name == Use[c]
        i == IndexOf(name, " ")
    IN  IF i >= 1 THEN SubSeq(name, 1, i - 1) ELSE name

HasParent(par, c) == par[c] # NoCmd

\* the chain c.parent, c.parent.parent, ... nearest first; it is cut where a
\* node repeats (the Go recursion does not end there)
RECURSIVE ParentChain(_, _, _)
ParentChain(par, c, seen) ==
    IF ~HasParent(par, c) \/ par[c] \in seen THEN << >>
    ELSE << par[c] >> \o ParentChain(par, par[c], seen \cup {par[c]})

\* whether following parent references from c comes back to a node already met
RECURSIVE Loops(_, _, _)
Loops(par, c, seen) ==
    IF ~HasParent(par, c) THEN FALSE
    ELSE IF par[c] \in seen THEN TRUE
    ELSE Loops(par, par[c], seen \cup {par[c]})

\* len(c.Path()); -1 when the recursion never returns
RECURSIVE PathLenUpTo(_, _, _)
PathLenUpTo(par, c, fuel) ==
    IF HasParent(par, c)
    THEN IF fuel = 0 THEN -1
         ELSE LET up == PathLenUpTo(par, par[c], fuel - 1)
              IN  IF up < 0 THEN -1 ELSE up + 1 + Len(Name(c))
    ELSE Len(Name(c))

PathLen(par, c) == PathLenUpTo(par, c, Cardinality(Nodes))

Root(par, c) ==
    LET chain == ParentChain(par, c, {c})
    IN  IF chain = << >> THEN c ELSE chain[Len(chain)]

-----------------------------------------------------------------------------
(* Tree operations.  A tree value T is the record of the per-node fields   *)
(* the operations read and write, with the status of the process.          *)

TreeOf(par, cmds, srt, ml, nf, st) ==
    [parent |-> par, commands |-> cmds, isSortedCmds |-> srt,
     maxLength |-> ml, normFn |-> nf, status |-> st]

ZeroLengths == [Use |-> 0, Path |-> 0, Name |-> 0]

\* MaxLengths.Reset has a value receiver: it zeroes a copy of the struct, and
\* the receiver's fields stay as they are
Reset(ml) == ml

resetMaxLengths(T, c) ==
    [T EXCEPT !.maxLength[c] = Reset(T.maxLength[c])]

\* the three comparisons run in order; child.Path() recurses through the
\* parent references and, on a loop of them, overflows the stack after the
\* Use length was already stored
updateMaxLengthFrom(T, c, child) ==
    LET usageLen == Len(Use[child])
        pathLen  == PathLen(T.parent, child)
        nameLen  == Len(Name(child))
        afterUse == [T EXCEPT !.maxLength[c].Use = Max(@, usageLen)]
    IN  IF pathLen < 0
        THEN [afterUse EXCEPT !.status = "overflow"]
        ELSE [afterUse EXCEPT !.maxLength[c].Path = Max(@, pathLen),
                              !.maxLength[c].Name = Max(@, nameLen)]

\* a test that takes every command as having a closure
IsGlobalNormalizationAlways(T, c) == TRUE

IsGlobalNormalizationEnabled(T, c) == T.normFn[c] # NoFn

GlobalNormalization(T, c) == T.normFn[c]

SetGlobalNormalization(T, c, fn) == [T EXCEPT !.normFn[c] = fn]

\* one round of Add's loop for the argument x
AddOne(T, c, x) ==
    IF x = c
    THEN [T EXCEPT !.status = "panic"]
    ELSE LET T1 == [T EXCEPT !.parent[x] = c]
             T2 == updateMaxLengthFrom(T1, c, x)
         IN  IF T2.status # "running" THEN T2
             ELSE LET T3 == IF IsGlobalNormalizationEnabled(T2, c)
                            THEN SetGlobalNormalization(T2, x, GlobalNormalization(T2, c))
                            ELSE T2
                  IN  [T3 EXCEPT !.commands[c] = Append(@, x),
                                 !.isSortedCmds[c] = FALSE]

\* Add(cmds...): the rounds in argument order, ended by the first that dies
RECURSIVE AddFrom(_, _, _, _)
AddFrom(T, c, cmds, i) ==
    IF i > Len(cmds) \/ T.status # "running" THEN T
    ELSE AddFrom(AddOne(T, c, cmds[i]), c, cmds, i + 1)

Add(T, c, cmds) == AddFrom(T, c, cmds, 1)

InArgs(cmds, x) == \E j \in 1..Len(cmds) : cmds[j] = x

\* Remove's first loop: the kept children are collected in the local slice
\* `commands`, which is what the loop returns beside the tree
RECURSIVE RemoveScan(_, _, _, _, _)
RemoveScan(T, c, cmds, i, kept) ==
    IF i > Len(T.commands[c]) THEN [tree |-> T, kept |-> kept]
    ELSE LET command == T.commands[c][i]
         IN  IF InArgs(cmds, command)
             THEN RemoveScan([T EXCEPT !.parent[command] = NoCmd],
                             c, cmds, i + 1, kept)
             ELSE RemoveScan(T, c, cmds, i + 1, Append(kept, command))

\* what Remove stores in c.commands after the scan: the code never assigns
\* the local slice, so the field keeps its value
RemoveStore(T, c, kept) == T

RECURSIVE RecomputeFrom(_, _, _)
RecomputeFrom(T, c, i) ==
    IF i > Len(T.commands[c]) \/ T.status # "running" THEN T
    ELSE RecomputeFrom(updateMaxLengthFrom(T, c, T.commands[c][i]), c, i + 1)

Remove(T, c, cmds) ==
    LET scan == RemoveScan(T, c, cmds, 1, << >>)
        T1   == RemoveStore(scan.tree, c, scan.kept)
        T2   == resetMaxLengths(T1, c)
    IN  RecomputeFrom(T2, c, 1)

\* sortByName.Less
Less(s, i, j) == StrLess(Name(s[i]), Name(s[j]))

Swap(s, i, j) == [s EXCEPT ![i] = s[j], ![j] = s[i]]

\* sort.Sort on a slice of at most 12 elements, which is all the model sorts.
\* It ends in insertionSort:
\*   for i := a+1; i < b; i++ { for j := i; j > a && less(j, j-1); j-- { swap(j, j-1) } }
RECURSIVE SinkFrom(_, _)
SinkFrom(s, j) ==
    IF j > 1 /\ Less(s, j, j - 1) THEN SinkFrom(Swap(s, j, j - 1), j - 1) ELSE s

RECURSIVE InsertionSortFrom(_, _)
InsertionSortFrom(s, i) ==
    IF i > Len(s) THEN s ELSE InsertionSortFrom(SinkFrom(s, i), i + 1)

\* The library sort.Sort comes from the toolchain that builds the program.
\* Up to Go 1.18 quickSort runs, before insertionSort, one ShellSort pass:
\*   for i := a + 6; i < b; i++ { if less(i, i-6) { swap(i, i-6) } }
\* From Go 1.19 on pdqsort runs insertionSort alone.
GoSorts == {"quickSort", "pdqsort"}

RECURSIVE ShellPassFrom(_, _)
ShellPassFrom(s, i) ==
    IF i > Len(s) THEN s
    ELSE ShellPassFrom(IF Less(s, i, i - 6) THEN Swap(s, i, i - 6) ELSE s, i + 1)

SortSort(s, build) ==
    IF build = "quickSort"
    THEN InsertionSortFrom(ShellPassFrom(s, 7), 2)
    ELSE InsertionSortFrom(s, 2)

\* Commands(): sorts in place when the flag says unsorted
Commands(T, c, build) ==
    IF ~T.isSortedCmds[c]
    THEN [T EXCEPT !.commands[c] = SortSort(@, build), !.isSortedCmds[c] = TRUE]
    ELSE T

HasSubCommands(T, c) == Len(T.commands[c]) > 0

\* c.HasAlias(s): s equals one of c.Aliases
HasAlias(c, s) == \E a \in Aliases[c] : a = s

\* a variant of the test of findNext's loop that also takes a beginning of
\* the name
MatchesByPrefix(cmd, next) ==
    (next # << >> /\ HasPrefix(Name(cmd), next)) \/ HasAlias(cmd, next)

\* the test of findNext's loop: cmd.Name() == next || cmd.HasAlias(next)
Matches(cmd, next) == Name(cmd) = next \/ HasAlias(cmd, next)

\* findNext's loop over c.commands from position i on: the first command that
\* matches, or nil (`matches` stays empty, so what follows the loop returns nil)
RECURSIVE findNextFrom(_, _, _)
findNextFrom(cmds, next, i) ==
    IF i > Len(cmds) THEN NoCmd
    ELSE IF Matches(cmds[i], next) THEN cmds[i]
    ELSE findNextFrom(cmds, next, i + 1)

findNext(cmds, next) == findNextFrom(cmds, next, 1)

ResetCommandsTree(T, c) ==
    [T EXCEPT !.parent[c] = NoCmd, !.commands[c] = << >>]

-----------------------------------------------------------------------------
(* Flag sets.  *flag.FlagSet is a record: nil or not, and the flags it     *)
(* holds.  A flag is the record of what pflag keeps of it; owner and scope *)
(* tell the definitions of one name apart.                                 *)

NilSet == [nil |-> TRUE, flags |-> {}]

\* flag.NewFlagSet(name, flag.ContinueOnError)
newFlagSet == [nil |-> FALSE, flags |-> {}]

S_verbose == << "v", "e", "r", "b", "o", "s", "e" >>
S_output == << "o", "u", "t", "p", "u", "t" >>

FlagNames == {S_verbose, S_output}

\* verbose is a bool flag (BoolP sets NoOptDefVal to "true"), output a string
\* flag (NoOptDefVal stays empty)
NewFlag(name, owner, scope) ==
    [name |-> name,
     shorthand |-> << name[1] >>,
     noOptDefVal |-> IF name = S_verbose THEN << "t", "r", "u", "e" >> ELSE << >>,
     owner |-> owner,
     scope |-> scope,
     required |-> FALSE]

\* fs.SetAnnotation(name, BashCompOneRequiredFlag, []string{"true"}) on a flag
\* just defined
Required(f) == [f EXCEPT !.required = TRUE]

NamesOf(fs) == {f.name : f \in fs.flags}

\* FlagSet.Lookup: nil when the set has no flag of that name
NoFlag == [name |-> << >>, shorthand |-> << >>, noOptDefVal |-> << >>,
           owner |-> NoCmd, scope |-> "none", required |-> FALSE]

Lookup(fs, name) ==
    IF \E f \in fs.flags : f.name = name
    THEN CHOOSE f \in fs.flags : f.name = name
    ELSE NoFlag

\* FlagSet.ShortLookup
ShortLookup(fs, sh) ==
    IF sh = << >> THEN NoFlag
    ELSE IF \E f \in fs.flags : f.shorthand = sh
    THEN CHOOSE f \in fs.flags : f.shorthand = sh
    ELSE NoFlag

\* FlagSet.AddFlagSet(newSet) on the receiver f: every flag of newSet whose
\* name f.Lookup does not find is added.  A nil newSet returns at once, and
\* VisitAll on an empty newSet calls nothing; otherwise f.Lookup on a nil
\* receiver dereferences it.
AddFlagSetPanics(f, newSet) == ~newSet.nil /\ newSet.flags # {} /\ f.nil

AddFlagSet(f, newSet) ==
    IF newSet.nil \/ f.nil THEN f
    ELSE [f EXCEPT !.flags =
            @ \cup {g \in newSet.flags : \A h \in f.flags : h.name # g.name}]

\* The flag fields of every node, with the status of the process
FlagsOf(fu, gl, pg, cl, st) ==
    [full |-> fu, global |-> gl, parentsGlobal |-> pg, commandLine |-> cl,
     status |-> st]

IsFull(F, c) == ~F.global[c].nil

LoadFullSet(F, c) == [F EXCEPT !.full[c] = newFlagSet]

IsGlobal(F, c) == ~F.global[c].nil

LoadGlobalSet(F, c) == [F EXCEPT !.global[c] = newFlagSet]

\* variant: the test the name promises, true when the set exists
IsParentsGlobalFlagsWhenSet(F, c) == ~F.parentsGlobal[c].nil

\* as written it is true when the set is nil
IsParentsGlobalFlags(F, c) == F.parentsGlobal[c].nil

LoadParentsGlobal(F, c) == [F EXCEPT !.parentsGlobal[c] = newFlagSet]

ClearParentsGlobal(F, c) == [F EXCEPT !.parentsGlobal[c] = NilSet]

\* c.Flags(): the state after the call; the value returned is .full[c] of it
Flags(F, c) == IF ~IsFull(F, c) THEN LoadFullSet(F, c) ELSE F

\* c.GlobalFlags(): the state after the call; it returns .global[c] of it
GlobalFlags(F, c) == IF ~IsGlobal(F, c) THEN LoadGlobalSet(F, c) ELSE F

Die(F) == [F EXCEPT !.status = "panic"]

\* the closure of updateParentGlobalFlags, on the state F1 after
\* parent.GlobalFlags():  c.flags.ParentsGlobal.AddFlagSet(parent.GlobalFlags())
AddParentGlobal(F1, c, p) ==
    IF AddFlagSetPanics(F1.parentsGlobal[c], F1.global[p]) THEN Die(F1)
    ELSE [F1 EXCEPT !.parentsGlobal[c] = AddFlagSet(@, F1.global[p])]

\* c.VisitParents(closure): the closure on the parents, nearest first
RECURSIVE VisitParentsFrom(_, _, _, _)
VisitParentsFrom(F, c, chain, i) ==
    IF i > Len(chain) \/ F.status # "running" THEN F
    ELSE VisitParentsFrom(AddParentGlobal(GlobalFlags(F, chain[i]), c, chain[i]),
                          c, chain, i + 1)

\* c.Root().GlobalFlags().AddFlagSet(flag.CommandLine), on the state F2 after
\* c.Root().GlobalFlags()
AddCommandLine(F2, r) == [F2 EXCEPT !.global[r] = AddFlagSet(@, F2.commandLine)]

\* updateParentGlobalFlags from its second statement on, F1 being the state
\* after the first; ParentsGlobal.SetNormalizeFunc on a nil set dereferences it
updateFromLoaded(F1, par, nf, c) ==
    IF nf[c] # NoFn /\ F1.parentsGlobal[c].nil THEN Die(F1)
    ELSE VisitParentsFrom(
            AddCommandLine(GlobalFlags(F1, Root(par, c)), Root(par, c)),
            c, ParentChain(par, c, {c}), 1)

updateParentGlobalFlags(F, par, nf, c) ==
    updateFromLoaded(
        IF ~IsParentsGlobalFlags(F, c) THEN LoadParentsGlobal(F, c) ELSE F,
        par, nf, c)

\* c.Flags().AddFlagSet(c.flags.ParentsGlobal), F5 the state after c.Flags()
mergeParentsGlobal(F5, c) ==
    IF AddFlagSetPanics(F5.full[c], F5.parentsGlobal[c]) THEN Die(F5)
    ELSE [F5 EXCEPT !.full[c] = AddFlagSet(@, F5.parentsGlobal[c])]

\* c.Flags().AddFlagSet(c.GlobalFlags()), F3 the state after both calls: the
\* receiver c.Flags() is evaluated before the argument c.GlobalFlags()
mergeOwnGlobal(F3, c) ==
    IF AddFlagSetPanics(F3.full[c], F3.global[c]) THEN Die(F3)
    ELSE mergeParentsGlobal(
            Flags([F3 EXCEPT !.full[c] = AddFlagSet(@, F3.global[c])], c), c)

\* mergeGlobalFlags after its call of updateParentGlobalFlags left F1
mergeAfterUpdate(F1, c) ==
    IF F1.status # "running" THEN F1
    ELSE mergeOwnGlobal(GlobalFlags(Flags(F1, c), c), c)

mergeGlobalFlags(F, par, nf, c) ==
    mergeAfterUpdate(updateParentGlobalFlags(F, par, nf, c), c)

-----------------------------------------------------------------------------
(* stripFlags *)

Dash == << "-" >>
DashDash == << "-", "-" >>

\* variant: the terminator compared with a single dash
IsTerminatorOneDash(s) == s = Dash

\* case s == "--"
IsTerminator(s) == s = DashDash

\* the tests of the second case that run before hasNoOptDefVal is called
LongCandidate(s) == HasPrefix(s, DashDash) /\ ~Contains(s, "=")

\* the tests of the third case that run before shortHasNoOptDefVal is called
ShortCandidate(s) == HasPrefix(s, Dash) /\ ~Contains(s, "=") /\ Len(s) = 2

\* variant: the last case without its prefix test
IsPositionalAnyNonEmpty(s) == s # << >>

\* case s != "" && !strings.HasPrefix(s, "-")
IsPositional(s) == s # << >> /\ ~HasPrefix(s, Dash)

\* fs.Lookup(name) on a non-nil set
hasNoOptDefVal(name, fs) ==
    LET flag == Lookup(fs, name)
    IN  IF flag = NoFlag THEN FALSE ELSE flag.noOptDefVal # << >>

\* fs.ShortLookup(name[:1]) on a non-nil set
shortHasNoOptDefVal(name, fs) ==
    IF Len(name) = 0 THEN FALSE
    ELSE LET flag == ShortLookup(fs, SubSeq(name, 1, 1))
         IN  IF flag = NoFlag THEN FALSE ELSE flag.noOptDefVal # << >>

\* The loop of stripFlags from the token at position i on.  idx are the
\* positions of the tokens appended to `commands`, reached the positions of
\* the tokens taken as s, status tells a nil dereference in pflag.
RECURSIVE Scan(_, _, _, _, _)
Scan(args, fs, i, idx, reached) ==
    IF i > Len(args)
    THEN [idx |-> idx, reached |-> reached, status |-> "running"]
    ELSE LET s     == args[i]
             rest  == Len(args) - i
             seen  == reached \cup {i}
             stop  == [idx |-> idx, reached |-> seen, status |-> "running"]
             die   == [idx |-> idx, reached |-> seen, status |-> "panic"]
             value == IF rest <= 1 THEN stop
                      ELSE Scan(args, fs, i + 2, idx, seen)
         IN  IF IsTerminator(s) THEN stop
             ELSE IF LongCandidate(s) /\ fs.nil THEN die
             ELSE IF LongCandidate(s) /\ ~hasNoOptDefVal(Tail_n(s, 2), fs)
                  THEN value
             ELSE IF ShortCandidate(s) /\ fs.nil THEN die
             ELSE IF ShortCandidate(s)
                     /\ ~shortHasNoOptDefVal(Tail_n(s, 1), fs)
                  THEN value
             ELSE IF IsPositional(s)
                  THEN Scan(args, fs, i + 1, Append(idx, i), seen)
             ELSE Scan(args, fs, i + 1, idx, seen)

\* what stripFlags returns, r being what its loop left, and the flag state
StripResult(F2, r) ==
    [F |-> [F2 EXCEPT !.status = r.status],
     idx |-> r.idx, reached |-> r.reached, merged |-> TRUE]

\* stripFlags after c.mergeGlobalFlags() left F1: flags := c.Flags(), the loop
stripAfterMerge(F1, c, args) ==
    IF F1.status # "running"
    THEN [F |-> F1, idx |-> << >>, reached |-> {}, merged |-> TRUE]
    ELSE StripResult(Flags(F1, c),
                     Scan(args, Flags(F1, c).full[c], 1, << >>, {}))

\* stripFlags(args, c): the flag state after the call and what it returned
stripFlags(F, par, nf, c, args) ==
    IF Len(args) = 0
    THEN [F |-> F, idx |-> << >>, reached |-> {}, merged |-> FALSE]
    ELSE stripAfterMerge(mergeGlobalFlags(F, par, nf, c), c, args)

\* the tokens at the positions idx
TokensAt(args, idx) == [k \in 1..Len(idx) |-> args[idx[k]]]

-----------------------------------------------------------------------------
(* ParseFlags *)

\* the flag name of a long token: what follows "--", up to the first "="
LongName(tok) ==
    LET body == Tail_n(tok, 2)
        e    == IndexOf(body, "=")
    IN  IF e >= 1 THEN SubSeq(body, 1, e - 1) ELSE body

\* FlagSet.Parse on the tokens args, all of them long flags: the flags it
\* sets, up to the first token it fails on (a name the set does not hold, or
\* a value-taking flag with neither "=" nor a following token)
RECURSIVE ParseSets(_, _, _)
ParseSets(fs, args, i) ==
    IF i > Len(args) THEN {}
    ELSE LET tok  == args[i]
             flag == Lookup(fs, LongName(tok))
         IN  IF flag = NoFlag THEN {}
             ELSE IF Contains(tok, "=") \/ flag.noOptDefVal # << >>
                  THEN {flag} \cup ParseSets(fs, args, i + 1)
             ELSE IF i + 1 > Len(args) THEN {}
             ELSE {flag} \cup ParseSets(fs, args, i + 2)

\* ParseFlags after c.Flags() left F2: the store into
\* c.Flags().ParseErrorsWhitelist dereferences a nil set; then Parse
parseOn(F2, c, args) ==
    IF F2.full[c].nil THEN [F |-> Die(F2), sets |-> {}]
    ELSE [F |-> F2, sets |-> ParseSets(F2.full[c], args, 1)]

\* ParseFlags after c.mergeGlobalFlags() left F1
parseAfterMerge(F1, c, args) ==
    IF F1.status # "running" THEN [F |-> F1, sets |-> {}]
    ELSE parseOn(Flags(F1, c), c, args)

\* c.ParseFlags(args) with DisableFlagParsing unset
ParseFlags(F, par, nf, c, args) ==
    parseAfterMerge(mergeGlobalFlags(F, par, nf, c), c, args)

\* validateRequiredFlags after flags := c.Flags() left F1, chg being the
\* flags whose Changed is set: VisitAll dereferences a nil set; `missing` are
\* the names of the flags that carry the annotation and are not Changed
validateOn(F1, c, chg) ==
    IF F1.full[c].nil THEN [F |-> Die(F1), err |-> FALSE, missing |-> {}]
    ELSE [F |-> F1,
          err |-> \E f \in F1.full[c].flags : f.required /\ f \notin chg,
          missing |-> {f.name : f \in {g \in F1.full[c].flags :
                                           g.required /\ g \notin chg}}]

\* c.validateRequiredFlags() with DisableFlagParsing unset
validateRequiredFlags(F, c, chg) == validateOn(Flags(F, c), c, chg)

-----------------------------------------------------------------------------
(* Lifecycle.  The struct and the order of its events are in the source;   *)
(* the executor that fires them is not, and follows section 4.5 of the     *)
(* specification.                                                          *)

\* the events of Lifecycle, in the order they are run
Hooks == << "GlobalPreRun", "PreRun", "Run", "PostRun", "GlobalPostRun" >>

GlobalHooks == {"GlobalPreRun", "GlobalPostRun"}

\* Lifecycle.IsRunnable
IsRunnable(lc, c) == "Run" \in lc[c]

\* the command whose hook h is run for the resolved command c: for a global
\* hook the first of c and its ancestors, nearest first, that sets it, for
\* any other hook c itself; nil when the hook is not set
HookOwner(lc, par, c, h) ==
    LET line == IF h \in GlobalHooks
                THEN << c >> \o ParentChain(par, c, {c}) ELSE << c >>
        hits == {i \in 1..Len(line) : h \in lc[line[i]]}
    IN  IF hits = {} THEN NoCmd
        ELSE line[CHOOSE i \in hits : \A j \in hits : i <= j]

\* the position after the last hook
Done == Len(Hooks) + 1

\* a variant of what follows a hook that goes on whatever the hook returned
NextPcIgnoringError(pc, result) == pc + 1

\* what follows the hook at position pc: the next hook, or, when the hook
\* returned an error, nothing
NextPc(pc, result) == IF result = "error" THEN Done ELSE pc + 1

\* the execution e after its next hook, run on owner, returned result; a
\* hook that is not set is passed over
AfterHook(e, owner, result) ==
    IF owner = NoCmd THEN [e EXCEPT !.pc = @ + 1]
    ELSE [e EXCEPT !.pc = NextPc(@, result),
                   !.ran = Append(@, [hook |-> Hooks[e.pc], on |-> owner]),
                   !.err = IF result = "error" THEN Hooks[e.pc] ELSE @]

-----------------------------------------------------------------------------
(* State *)

CurTree == TreeOf(parent, commands, isSortedCmds, maxLength, normFn, status)

SetTree(T) ==
    /\ parent' = T.parent
    /\ commands' = T.commands
    /\ isSortedCmds' = T.isSortedCmds
    /\ maxLength' = T.maxLength
    /\ normFn' = T.normFn
    /\ status' = T.status

CurFlags == FlagsOf(full, global, parentsGlobal, commandLine, status)

SetFlags(F) ==
    /\ full' = F.full
    /\ global' = F.global
    /\ parentsGlobal' = F.parentsGlobal
    /\ commandLine' = F.commandLine
    /\ status' = F.status

\* a Cmd{Use: ..., Aliases: ...} literal for every node: all other fields zero
NewTree ==
    TreeOf([n \in Nodes |-> NoCmd], [n \in Nodes |-> << >>],
           [n \in Nodes |-> FALSE], [n \in Nodes |-> ZeroLengths],
           [n \in Nodes |-> NoFn], "running")

NoOp == [name |-> "init", recv |-> NoCmd, args |-> << >>, ret |-> [ok |-> TRUE]]

\* lastRef: how the set the latest Flags() call of the application returned
\*          relates to c.flags.Full now ("none": no call yet; "nil": it was
\*          nil; "current": it is c.flags.Full; "stale": Full was replaced)
\* regLocal: the flag names registered on results of Flags()
\* merged:  a merge on the node has returned
\* late:    flags registered on an ancestor's global set after that
\* adds:    how many commands were handed to Add so far
NoHist ==
    [lastRef   |-> [n \in Nodes |-> "none"],
     regLocal  |-> [n \in Nodes |-> {}],
     merged    |-> [n \in Nodes |-> FALSE],
     late      |-> [n \in Nodes |-> {}],
     adds      |-> 0]

\* no command is being executed
NoExec == [node |-> NoCmd, pc |-> 0, ran |-> << >>, err |-> "nil"]

InitOf(T) ==
    /\ parent = T.parent
    /\ commands = T.commands
    /\ isSortedCmds = T.isSortedCmds
    /\ maxLength = T.maxLength
    /\ normFn = T.normFn
    /\ calledAs = [n \in Nodes |-> << >>]
    /\ full = [n \in Nodes |-> NilSet]
    /\ global = [n \in Nodes |-> NilSet]
    /\ parentsGlobal = [n \in Nodes |-> NilSet]
    /\ commandLine = newFlagSet
    /\ changed = {}
    /\ status = "running"
    /\ lifecycle = [n \in Nodes |-> {}]
    /\ exec = NoExec
    /\ op = NoOp
    /\ hist = NoHist

RECURSIVE SeqsOfLen(_, _)
SeqsOfLen(S, n) ==
    IF n = 0 THEN {<< >>}
    ELSE {Append(q, x) : q \in SeqsOfLen(S, n - 1), x \in S}

SeqsUpTo(S, n) == UNION {SeqsOfLen(S, k) : k \in 0..n}

CmdLists == SeqsUpTo(TreeNodes, MaxCmds) \ {<< >>}

\* Remove only asks whether a child is among its arguments, so their order and
\* repetitions do not matter: one list for every non-empty set of nodes
RemoveLists ==
    {q \in CmdLists : \A i, j \in 1..Len(q) : i < j => StrLess(Use[q[i]], Use[q[j]])}

-----------------------------------------------------------------------------
(* Tree actions *)

\* c.Add(cmds...), while the run hands at most max commands to Add
AddWithin(c, cmds, max) ==
    /\ status = "running"
    /\ hist.adds + Len(cmds) <= max
    /\ SetTree(Add(CurTree, c, cmds))
    /\ op' = [name |-> "Add", recv |-> c, args |-> cmds,
              ret |-> [ok |-> status' = "running"]]
    /\ hist' = [hist EXCEPT !.adds = @ + Len(cmds)]
    /\ UNCHANGED << calledAs, flagVars, runVars >>

AddAct(c, cmds) == AddWithin(c, cmds, MaxAdds)

RemoveAct(c, cmds) ==
    /\ status = "running"
    /\ SetTree(Remove(CurTree, c, cmds))
    /\ op' = [name |-> "Remove", recv |-> c, args |-> cmds,
              ret |-> [ok |-> status' = "running"]]
    /\ UNCHANGED << calledAs, flagVars, hist, runVars >>

CommandsAct(c) ==
    \E build \in GoSorts :
        /\ status = "running"
        /\ SetTree(Commands(CurTree, c, build))
        /\ op' = [name |-> "Commands", recv |-> c, args |-> << >>,
                  ret |-> [ok |-> TRUE]]
        /\ UNCHANGED << calledAs, flagVars, hist, runVars >>

\* ResetCommands also drops help.Default (not modelled) and ParentsGlobal
ResetCommandsAct(c) ==
    /\ status = "running"
    /\ SetTree(ResetCommandsTree(CurTree, c))
    /\ parentsGlobal' = ClearParentsGlobal(CurFlags, c).parentsGlobal
    /\ op' = [name |-> "ResetCommands", recv |-> c, args |-> << >>,
              ret |-> [ok |-> TRUE]]
    /\ UNCHANGED << calledAs, full, global, commandLine, changed, hist, runVars >>

\* c.findNext(next): the command found gets next as its calledAs.Name
FindNextAct(c, next) ==
    \E r \in {findNext(commands[c], next)} :
        /\ status = "running"
        /\ calledAs' = IF r # NoCmd THEN [calledAs EXCEPT ![r] = next]
                       ELSE calledAs
        /\ op' = [name |-> "findNext", recv |-> c, args |-> << next >>,
                  ret |-> [ok |-> TRUE, cmd |-> r]]
        /\ UNCHANGED << parent, commands, isSortedCmds, maxLength, normFn,
                        flagVars, status, hist, runVars >>

\* the application sets the hook h of c, before anything is executed
SetHookAct(c, h) ==
    /\ status = "running"
    /\ exec = NoExec
    /\ h \notin lifecycle[c]
    /\ lifecycle' = [lifecycle EXCEPT ![c] = @ \cup {h}]
    /\ op' = [name |-> "SetHook", recv |-> c, args |-> << h >>,
              ret |-> [ok |-> TRUE]]
    /\ UNCHANGED << treeVars, flagVars, status, exec, hist >>

\* the resolved command c is executed: a command without Run is not
\* executable, which is the error returned
ExecuteAct(c) ==
    /\ status = "running"
    /\ exec = NoExec
    /\ exec' = IF IsRunnable(lifecycle, c)
               THEN [NoExec EXCEPT !.node = c, !.pc = 1]
               ELSE [NoExec EXCEPT !.node = c, !.pc = Done,
                                   !.err = "not executable"]
    /\ op' = [name |-> "execute", recv |-> c, args |-> << >>,
              ret |-> [ok |-> IsRunnable(lifecycle, c)]]
    /\ UNCHANGED << treeVars, flagVars, status, lifecycle, hist >>

\* the next hook of the execution is run and returns nil or an error
HookAct ==
    \E result \in {"nil", "error"} :
        /\ status = "running"
        /\ exec.node # NoCmd
        /\ exec.pc < Done
        /\ HookOwner(lifecycle, parent, exec.node, Hooks[exec.pc]) = NoCmd
                => result = "nil"
        /\ exec' = AfterHook(exec,
                         HookOwner(lifecycle, parent, exec.node, Hooks[exec.pc]),
                         result)
        /\ op' = [name |-> Hooks[exec.pc], recv |-> exec.node, args |-> << >>,
                  ret |-> [ok |-> result = "nil"]]
        /\ UNCHANGED << treeVars, flagVars, status, lifecycle, hist >>

InitTree == InitOf(NewTree)

NextTree ==
    \/ \E c \in TreeNodes, cmds \in CmdLists : AddAct(c, cmds)
    \/ \E c \in TreeNodes, cmds \in RemoveLists : RemoveAct(c, cmds)
    \/ \E c \in TreeNodes : CommandsAct(c)
    \/ \E c \in TreeNodes : ResetCommandsAct(c)

SpecTree == InitTree /\ [][NextTree]_vars

\* the tokens handed to findNext: names, aliases, a beginning of a name, a
\* whole Use, and a token that names nothing
T_r == << "r" >>

DispatchTokens ==
    {T_r, << "r", "u" >>, << "r", "u", "n" >>, << "b" >>,
     << "r", "u", "n", " ", "f" >>, << "t", "o", "p" >>}

\* The tree is built and read, and tokens are resolved on it
NextDispatch ==
    \/ \E c \in TreeNodes, cmds \in CmdLists : AddAct(c, cmds)
    \/ \E c \in TreeNodes : CommandsAct(c)
    \/ \E c \in TreeNodes, next \in DispatchTokens : FindNextAct(c, next)

SpecDispatch == InitTree /\ [][NextDispatch]_vars

\* c.SetGlobalNormalization(fn); fn may be nil
SetGlobalNormalizationAct(c, fn) ==
    /\ status = "running"
    /\ SetTree(SetGlobalNormalization(CurTree, c, fn))
    /\ op' = [name |-> "SetGlobalNormalization", recv |-> c, args |-> << fn >>,
              ret |-> [ok |-> TRUE]]
    /\ UNCHANGED << calledAs, flagVars, hist, runVars >>

\* Closures are set and taken away while the tree is built
NextNorm ==
    \/ \E c \in TreeNodes, cmds \in CmdLists : AddAct(c, cmds)
    \/ \E c \in TreeNodes, fn \in NormFns \cup {NoFn} :
           SetGlobalNormalizationAct(c, fn)

SpecNorm == InitTree /\ [][NextNorm]_vars

\* One parent, n4, is handed its children one at a time, the same child any
\* number of times, and its sorted children are read in between
NextSort ==
    \/ \E x \in TreeNodes : AddWithin("n4", << x >>, MaxList)
    \/ CommandsAct("n4")

SpecSort == InitTree /\ [][NextSort]_vars

-----------------------------------------------------------------------------
(* Flag actions *)

MergeOps == {"ParseFlags", "stripFlags"}

\* the call before this one was a merge on c that returned
JustMerged(c) ==
    op.name \in MergeOps /\ op.recv = c /\ op.ret.ok /\ op.ret.mergeRan

\* what a merge on c did: whether it replaced c.flags.Full by a new set
\* (F1 is the state updateParentGlobalFlags left) and whether it returned
\* (F6 is the state it left)
MergeInfoOf(F1, F6, c) ==
    [reloads |-> F1.status = "running" /\ ~IsFull(F1, c),
     returns |-> F6.status = "running"]

MergeInfo(F, par, nf, c) ==
    MergeInfoOf(updateParentGlobalFlags(F, par, nf, c),
                mergeGlobalFlags(F, par, nf, c), c)

RefAfterReload(ref) == IF ref = "current" THEN "stale" ELSE ref

\* the application calls c.Flags()
FlagsAct(c) ==
    LET F1  == Flags(CurFlags, c)
        new == ~IsFull(CurFlags, c)
        ref == hist.lastRef[c]
        gotNil == F1.full[c].nil
    IN  /\ status = "running"
        /\ SetFlags(F1)
        /\ op' = [name |-> "Flags", recv |-> c, args |-> << >>,
                  ret |-> [ok |-> TRUE, nil |-> gotNil, prev |-> ref,
                           same |-> \/ (ref = "current" /\ ~new)
                                    \/ (ref = "nil" /\ gotNil)]]
        /\ hist' = [hist EXCEPT
                      !.lastRef[c] = IF gotNil THEN "nil" ELSE "current"]
        /\ UNCHANGED << treeVars, changed, runVars >>

\* the application calls c.GlobalFlags()
GlobalFlagsAct(c) ==
    /\ status = "running"
    /\ SetFlags(GlobalFlags(CurFlags, c))
    /\ op' = [name |-> "GlobalFlags", recv |-> c, args |-> << >>,
              ret |-> [ok |-> TRUE]]
    /\ UNCHANGED << treeVars, changed, hist, runVars >>

\* fs := c.Flags(); fs.BoolP / fs.StringP for every name of names: AddFlag
\* dereferences a nil fs.  The application defines no name twice in a set.
RegisterLocalAct(c, names) ==
    LET F1  == Flags(CurFlags, c)
        new == {NewFlag(n, c, "local") : n \in names}
        gotNil == F1.full[c].nil
        F2  == IF gotNil THEN Die(F1)
               ELSE [F1 EXCEPT !.full[c].flags = @ \cup new]
    IN  /\ status = "running"
        /\ names \cap NamesOf(F1.full[c]) = {}
        /\ SetFlags(F2)
        /\ changed' = changed \ new
        /\ op' = [name |-> "RegisterLocal", recv |-> c, args |-> << >>,
                  ret |-> [ok |-> ~gotNil, nil |-> gotNil]]
        /\ hist' = [hist EXCEPT
                      !.lastRef[c] = IF gotNil THEN "nil" ELSE "current",
                      !.regLocal[c] = IF gotNil THEN @ ELSE @ \cup names]
        /\ UNCHANGED << treeVars, runVars >>

\* fs := c.Flags(); for every name of names: fs.BoolP / fs.StringP and
\* fs.SetAnnotation(name, BashCompOneRequiredFlag, []string{"true"})
RegisterRequiredAct(c, names) ==
    \E F1 \in {Flags(CurFlags, c)} :
        /\ status = "running"
        /\ names \cap NamesOf(F1.full[c]) = {}
        /\ SetFlags(IF F1.full[c].nil THEN Die(F1)
                    ELSE [F1 EXCEPT !.full[c].flags =
                             @ \cup {Required(NewFlag(n, c, "local")) :
                                        n \in names}])
        /\ changed' = changed \ {Required(NewFlag(n, c, "local")) : n \in names}
        /\ op' = [name |-> "RegisterRequired", recv |-> c, args |-> << >>,
                  ret |-> [ok |-> ~F1.full[c].nil, nil |-> F1.full[c].nil]]
        /\ hist' = [hist EXCEPT
                      !.lastRef[c] = IF F1.full[c].nil THEN "nil" ELSE "current",
                      !.regLocal[c] = IF F1.full[c].nil THEN @ ELSE @ \cup names]
        /\ UNCHANGED << treeVars, runVars >>

\* c.validateRequiredFlags(); before is c.flags.Full as the call finds it
ValidateAct(c) ==
    \E r \in {validateRequiredFlags(CurFlags, c, changed)} :
        /\ status = "running"
        /\ SetFlags(r.F)
        /\ op' = [name |-> "validateRequiredFlags", recv |-> c, args |-> << >>,
                  ret |-> [ok |-> r.F.status = "running", err |-> r.err,
                           missing |-> r.missing, before |-> full[c]]]
        /\ hist' = [hist EXCEPT
                      !.lastRef[c] =
                          IF ~IsFull(CurFlags, c) THEN RefAfterReload(@) ELSE @]
        /\ UNCHANGED << treeVars, changed, runVars >>

\* gs := c.GlobalFlags(); gs.BoolP / gs.StringP for every name of names
RegisterGlobalAct(c, names) ==
    LET F1  == GlobalFlags(CurFlags, c)
        new == {NewFlag(n, c, "global") : n \in names}
        F2  == [F1 EXCEPT !.global[c].flags = @ \cup new]
    IN  /\ status = "running"
        /\ names \cap NamesOf(F1.global[c]) = {}
        /\ SetFlags(F2)
        /\ op' = [name |-> "RegisterGlobal", recv |-> c, args |-> << >>,
                  ret |-> [ok |-> TRUE]]
        /\ hist' = [hist EXCEPT
                      !.late = [d \in Nodes |->
                                  IF hist.merged[d]
                                     /\ InArgs(ParentChain(parent, d, {d}), c)
                                  THEN hist.late[d] \cup new
                                  ELSE hist.late[d]]]
        /\ UNCHANGED << treeVars, changed, runVars >>

ParseFlagsAct(c, args) ==
    \E r \in {ParseFlags(CurFlags, parent, normFn, c, args)},
       m \in {MergeInfo(CurFlags, parent, normFn, c)} :
        /\ status = "running"
        /\ SetFlags(r.F)
        /\ changed' = changed \cup r.sets
        /\ op' = [name |-> "ParseFlags", recv |-> c, args |-> args,
                  ret |-> [ok |-> r.F.status = "running", mergeRan |-> TRUE,
                           again |-> JustMerged(c),
                           namesBefore |-> NamesOf(full[c])]]
        /\ hist' = [hist EXCEPT
                      !.merged[c] = @ \/ m.returns,
                      !.lastRef[c] =
                          IF m.reloads THEN RefAfterReload(@) ELSE @]
        /\ UNCHANGED << treeVars, runVars >>

StripFlagsAct(c, args) ==
    \E r \in {stripFlags(CurFlags, parent, normFn, c, args)},
       m \in {MergeInfo(CurFlags, parent, normFn, c)} :
        /\ status = "running"
        /\ SetFlags(r.F)
        /\ op' = [name |-> "stripFlags", recv |-> c, args |-> args,
                  ret |-> [ok |-> r.F.status = "running",
                           mergeRan |-> r.merged,
                           again |-> JustMerged(c),
                           namesBefore |-> NamesOf(full[c]),
                           idx |-> r.idx, reached |-> r.reached,
                           res |-> TokensAt(args, r.idx)]]
        /\ hist' = [hist EXCEPT
                      !.merged[c] = @ \/ (r.merged /\ m.returns),
                      !.lastRef[c] =
                          IF r.merged /\ m.reloads
                          THEN RefAfterReload(@) ELSE @]
        /\ UNCHANGED << treeVars, changed, runVars >>

\* tokens
T_verbose == DashDash \o S_verbose
T_output == DashDash \o S_output
T_outputEq == DashDash \o S_output \o << "=", "x" >>
T_run == << "r", "u", "n" >>
T_file == << "f", "i", "l", "e", ".", "t", "x", "t" >>
T_a == << "a" >>
T_empty == << >>

T_dash == << "-" >>

\* n1.Add(n2); n2.Add(n3): the chain n1 - n2 - n3
ChainTree == Add(Add(NewTree, "n1", << "n2" >>), "n2", << "n3" >>)

InitFlags == InitOf(ChainTree)

\* the nodes whose own flag sets the application reads and parses: the root
\* and the leaf of the chain
Actors == {"n1", "n3"}

BothNames == {FlagNames}
OneName == {{S_verbose}}

\* Flags(), GlobalFlags(), stripFlags and ParseFlags in any order on the root
\* and on the leaf, with flags registered on what Flags() returns
NextFlags ==
    \/ \E c \in Actors : FlagsAct(c)
    \/ \E c \in Actors : GlobalFlagsAct(c)
    \/ \E c \in Actors, names \in OneName : RegisterLocalAct(c, names)
    \/ \E c \in Actors : ParseFlagsAct(c, << T_verbose >>)
    \/ \E c \in Actors : StripFlagsAct(c, << T_run >>)

SpecFlags == InitFlags /\ [][NextFlags]_vars

\* required flags are registered on the root or on the leaf, the command line
\* is parsed and the required flags are validated
NextRequired ==
    \/ \E c \in Actors : FlagsAct(c)
    \/ \E c \in Actors : GlobalFlagsAct(c)
    \/ \E c \in Actors : \E names \in {{S_verbose}, {S_output}} \cup BothNames :
            RegisterRequiredAct(c, names)
    \/ \E c \in Actors : \E args \in {<< >>, << T_verbose >>} :
            ParseFlagsAct(c, args)
    \/ \E c \in Actors : ValidateAct(c)

SpecRequired == InitFlags /\ [][NextRequired]_vars

\* the hooks the application sets: any hook on the leaf of the chain, the
\* global ones also on its ancestors
HooksOf ==
    [n \in Nodes |->
        CASE n = "n3" -> {Hooks[i] : i \in 1..Len(Hooks)}
          [] n \in {"n1", "n2"} -> GlobalHooks
          [] OTHER -> {}]

\* hooks are set on the chain, then the leaf or its parent is resolved and
\* executed, hook by hook
NextRun ==
    \/ \E c \in Nodes : \E h \in HooksOf[c] : SetHookAct(c, h)
    \/ \E c \in {"n2", "n3"} : ExecuteAct(c)
    \/ HookAct

SpecRun == InitFlags /\ [][NextRun]_vars

\* the names the application registers on the global set of each node
GlobalNamesOf ==
    [n \in Nodes |->
        CASE n = "n1" -> {{S_verbose}, {S_output}}
          [] n = "n2" -> {{S_verbose}, {S_output}}
          [] n = "n3" -> {{S_verbose}, {S_output}}
          [] n = "n4" -> {}]

\* global flags registered along the chain, local ones on the leaf, and the
\* leaf merged and read
NextMerge ==
    \/ \E c \in TreeNodes : \E names \in GlobalNamesOf[c] :
            RegisterGlobalAct(c, names)
    \/ \E names \in OneName : RegisterLocalAct("n3", names)
    \/ \E c \in {"n2", "n3"} : FlagsAct(c)
    \/ \E c \in {"n2", "n3"} : ParseFlagsAct(c, << >>)
    \/ \E c \in {"n2", "n3"} : StripFlagsAct(c, << T_run >>)

SpecMerge == InitFlags /\ [][NextMerge]_vars

Tokens == {T_verbose, T_output, T_outputEq, << "-", "v" >>, << "-", "o" >>,
           DashDash, T_empty, T_dash, T_run, T_file}

\* the example of the specification
ExampleArgs == << T_verbose, T_output, T_file, T_run >>

\* the token lists that end in "--", "a", "-b"
TailArgs == << DashDash, T_a, << "-", "b" >> >>

StripInputs ==
    SeqsUpTo(Tokens, MaxArgs) \cup {ExampleArgs}
        \cup {q \o TailArgs : q \in SeqsUpTo(Tokens, MaxArgs - 2)}

\* Configuration, then dispatch: verbose and output are registered on one
\* result of Flags() or of GlobalFlags() of one node, the root or the leaf,
\* and then stripFlags runs on that node, which ends the run
Configuring(c) ==
    /\ op.name # "stripFlags"
    /\ \A d \in Actors \ {c} : full[d].nil /\ global[d].nil

NextStrip ==
    \/ \E c \in Actors : Configuring(c) /\ GlobalFlagsAct(c)
    \/ \E c \in Actors :
            Configuring(c) /\ \E names \in BothNames : RegisterLocalAct(c, names)
    \/ \E c \in Actors :
            Configuring(c) /\ \E names \in BothNames : RegisterGlobalAct(c, names)
    \/ \E c \in Actors :
            Configuring(c) /\ \E args \in StripInputs : StripFlagsAct(c, args)

SpecStrip == InitFlags /\ [][NextStrip]_vars

-----------------------------------------------------------------------------
(* argsMinusFirstX *)

\* the loop of argsMinusFirstX from index i: the first y equal to x is cut
\* out and the scan ends; args comes back as it is when the scan finds none
RECURSIVE argsMinusFrom(_, _, _)
argsMinusFrom(args, x, i) ==
    IF i > Len(args) THEN args
    ELSE IF args[i] = x
         THEN SubSeq(args, 1, i - 1) \o SubSeq(args, i + 1, Len(args))
         ELSE argsMinusFrom(args, x, i + 1)

\* a function that drops every x
argsMinusEveryX(args, x) == SelectSeq(args, LAMBDA y : y # x)

argsMinusFirstX(args, x) == argsMinusFrom(args, x, 1)

\* the words of the argument lists: a command name met twice on a line
\* ("admin policy ... admin") is the case the function is written for
ArgWords == {T_a, T_run, T_file}

ArgsMinusFirstXAct(args, x) ==
    /\ op' = [name |-> "argsMinusFirstX", recv |-> NoCmd,
              args |-> << args, x >>,
              ret |-> [ok |-> TRUE, out |-> argsMinusFirstX(args, x)]]
    /\ UNCHANGED << treeVars, flagVars, status, runVars, hist >>

NextArgs ==
    \E args \in SeqsUpTo(ArgWords, MaxArgs), x \in ArgWords :
        ArgsMinusFirstXAct(args, x)

SpecArgs == InitTree /\ [][NextArgs]_vars

-----------------------------------------------------------------------------
(* Claims *)

Range(q) == {q[i] : i \in 1..Len(q)}

\* C1: an Add whose argument list holds the receiver is rejected, and leaves
\* the child lists, every parent reference and the sorted flags as they were
C1_AddSelfLeavesTreeAlone ==
    [][(op'.name = "Add" /\ InArgs(op'.args, op'.recv))
         => /\ status' = "panic"
            /\ commands' = commands
            /\ parent' = parent
            /\ isSortedCmds' = isSortedCmds]_vars

\* C2: after p.Remove(x) a child x of p is out of p's child list and has no
\* parent, and the children of p that the call does not name stay
C2_RemoveTakesChildOut ==
    [][op'.name = "Remove"
         => \A x \in Range(commands[op'.recv]) :
               IF InArgs(op'.args, x)
               THEN /\ x \notin Range(commands'[op'.recv])
                    /\ parent'[x] = NoCmd
               ELSE x \in Range(commands'[op'.recv])]_vars

\* C3: Flags() returns a set, the same one at every call, so that it still
\* holds the flags registered on what an earlier call returned
C3_FlagsMemoized ==
    op.name = "Flags"
        => /\ ~op.ret.nil
           /\ op.ret.prev # "none" => op.ret.same
           /\ hist.regLocal[op.recv] \subseteq NamesOf(full[op.recv])

\* the merge was run on c by the call that produced this state
MergeRanOn(c) == op.name \in MergeOps /\ op.recv = c /\ op.ret.mergeRan

Ancestors(c) == Range(ParentChain(parent, c, {c}))

\* C4: after the merge ran on a node, its Flags() set holds every flag name of
\* its own global set and of the global set of each of its ancestors
C4_MergeSeesAncestors ==
    \A c \in Nodes :
        MergeRanOn(c)
            => \A a \in {c} \cup Ancestors(c) :
                  NamesOf(global[a]) \subseteq NamesOf(full[c])

\* the first node, from c upwards, that defines name: c itself by a flag of
\* its own in its set or its global set, an ancestor by its global set
Defines(c, a, name) ==
    \/ name \in NamesOf(global[a])
    \/ a = c /\ \E f \in full[c].flags : f.name = name /\ f.owner = c

NearestOwner(c, name) ==
    LET line == << c >> \o ParentChain(parent, c, {c})
        hits == {i \in 1..Len(line) : Defines(c, line[i], name)}
    IN  IF hits = {} THEN NoCmd
        ELSE line[CHOOSE i \in hits : \A j \in hits : i <= j]

\* C5: after the merge, the definition of a name that the node's set holds
\* is the nearest one: the node's own, else the nearest ancestor's
C5_NearestDefinitionWins ==
    \A c \in Nodes :
        MergeRanOn(c)
            => \A name \in FlagNames :
                  Lookup(full[c], name).owner = NearestOwner(c, name)

BothRegistered(c) ==
    \/ FlagNames \subseteq hist.regLocal[c]
    \/ FlagNames \subseteq NamesOf(global[c])

\* C7: with verbose (no value) and output (value-taking) registered on the
\* node, root or not, stripFlags returns ["run"] for
\* ["--verbose", "--output", "file.txt", "run"]
C7_ExampleYieldsRun ==
    (op.name = "stripFlags" /\ op.args = ExampleArgs /\ BothRegistered(op.recv))
        => op.ret.ok /\ op.ret.res = << T_run >>

\* C8: no token at or after a "--" that the scan takes as a token of its own
\* is in the result
C8_StopsAtTerminator ==
    op.name = "stripFlags"
        => \A i \in op.ret.reached :
              op.args[i] = DashDash
                  => \A k \in 1..Len(op.ret.idx) : op.ret.idx[k] < i

\* C8 witness: an input that ends in "--", "a", "-b", whose "--" the scan
\* reaches after it has accumulated a positional token
C8_Witness ==
    /\ op.name = "stripFlags" /\ op.ret.ok
    /\ Len(op.args) > 3
    /\ SubSeq(op.args, Len(op.args) - 2, Len(op.args)) = TailArgs
    /\ Len(op.args) - 2 \in op.ret.reached
    /\ Len(op.ret.idx) > 0

\* a flag token without "=" that names no no-value-default flag of fs
ValueExpecting(s, fs) ==
    /\ s # DashDash
    /\ ~Contains(s, "=")
    /\ \/ /\ HasPrefix(s, DashDash)
          /\ \A f \in fs.flags : f.name = Tail_n(s, 2) => f.noOptDefVal = << >>
       \/ /\ HasPrefix(s, Dash) /\ Len(s) = 2
          /\ \A f \in fs.flags :
                f.shorthand = Tail_n(s, 1) => f.noOptDefVal = << >>

\* C9: a value-expecting flag token that the scan reaches as the last token
\* ends the scan without a panic and adds nothing to the result; reached as
\* the last but one, it takes the last token as its value
C9_TrailingValueFlag ==
    (op.name = "stripFlags" /\ Len(op.args) > 0)
        => LET n  == Len(op.args)
               fs == full[op.recv]
           IN  /\ ValueExpecting(op.args[n], fs)
                    => op.ret.ok /\ n \notin Range(op.ret.idx)
               /\ (n > 1 /\ n - 1 \in op.ret.reached
                         /\ ValueExpecting(op.args[n - 1], fs))
                    => op.ret.ok /\ n \notin Range(op.ret.idx)

\* C10: the result is the input's tokens at increasing positions, none of
\* them empty, none beginning with "-"
C10_ResultIsPositionalSubsequence ==
    op.name = "stripFlags"
        => /\ \A k \in 1..Len(op.ret.idx) :
                 /\ op.ret.idx[k] \in 1..Len(op.args)
                 /\ k > 1 => op.ret.idx[k - 1] < op.ret.idx[k]
                 /\ op.ret.res[k] = op.args[op.ret.idx[k]]
                 /\ op.ret.res[k] # << >>
                 /\ op.ret.res[k][1] # "-"
           /\ Len(op.ret.res) = Len(op.ret.idx)

\* C10 witness: an input with an empty token, a lone "-" and a positional
\* token, of which only the positional one is returned
C10_Witness ==
    /\ op.name = "stripFlags" /\ op.ret.ok
    /\ T_empty \in Range(op.args)
    /\ T_dash \in Range(op.args)
    /\ Len(op.ret.res) = 1

\* C11: findNext returns a command of the receiver's child list whose name is
\* the token or that has the token among its aliases, and stores the token as
\* its calledAs name; when the list holds no such command it returns nil and
\* every calledAs stays as it was
C11_FindNextExactMatch ==
    [][op'.name = "findNext"
         => LET c    == op'.recv
                next == op'.args[1]
                r    == op'.ret.cmd
            IN  IF \E x \in Range(commands[c]) :
                        Name(x) = next \/ next \in Aliases[x]
                THEN /\ r \in Range(commands[c])
                     /\ Name(r) = next \/ next \in Aliases[r]
                     /\ calledAs' = [calledAs EXCEPT ![r] = next]
                ELSE r = NoCmd /\ calledAs' = calledAs]_vars

\* C11 witness: the token "r" is resolved to the command named "run" by its
\* alias, which is then called as "r"
C11_Witness ==
    /\ op.name = "findNext" /\ op.args = << T_r >>
    /\ op.ret.cmd = "n2"
    /\ Name("n2") # T_r
    /\ calledAs["n2"] = T_r

\* the names of the flags of the set fs that carry the one-required
\* annotation and were not set
MissingIn(fs) == {f.name : f \in {g \in fs.flags : g.required /\ g \notin changed}}

\* C12: validateRequiredFlags returns an error exactly when a flag of the
\* node's set carries the one-required annotation and was not set, and the
\* error names exactly those flags
C12_RequiredFlagsReported ==
    op.name = "validateRequiredFlags"
        => /\ op.ret.ok
           /\ op.ret.err <=> MissingIn(op.ret.before) # {}
           /\ op.ret.missing = MissingIn(op.ret.before)

\* the commands of q in ascending order of name, those of one name in the
\* order they have in q
RECURSIVE StableSorted(_)
StableSorted(q) ==
    IF q = << >> THEN << >>
    ELSE LET first == CHOOSE i \in 1..Len(q) :
                         /\ \A j \in 1..Len(q) : ~StrLess(Name(q[j]), Name(q[i]))
                         /\ \A j \in 1..(i - 1) : Name(q[j]) # Name(q[i])
             rest  == [k \in 1..(Len(q) - 1) |->
                         IF k < first THEN q[k] ELSE q[k + 1]]
         IN  << q[first] >> \o StableSorted(rest)

\* C13: what Commands() leaves and returns is the child list in ascending
\* order of name with the children of one name in the order they had, and an
\* Add that returns leaves the sorted flag of its receiver cleared
C13_CommandsStableAscending ==
    [][/\ op'.name = "Commands"
            => /\ commands'[op'.recv] = StableSorted(commands[op'.recv])
               /\ isSortedCmds'[op'.recv]
       /\ (op'.name = "Add" /\ status' = "running")
            => ~isSortedCmds'[op'.recv]]_vars

\* the position of the hook h in the order of the events
HookIndex(h) == CHOOSE i \in 1..Len(Hooks) : Hooks[i] = h

\* C14: the hooks that ran for the resolved command ran in the order
\* GlobalPreRun, PreRun, Run, PostRun, GlobalPostRun, each at most once, and
\* when a hook returned an error it is the last that ran and its error is the
\* one returned
C14_HooksLinearWithEarlyExit ==
    /\ \A i, j \in 1..Len(exec.ran) :
          i < j => HookIndex(exec.ran[i].hook) < HookIndex(exec.ran[j].hook)
    /\ (exec.node # NoCmd /\ op.name \in Range(Hooks) /\ ~op.ret.ok)
          => /\ exec.err = op.name
             /\ exec.pc = Done
    /\ (exec.err \in Range(Hooks))
          => /\ exec.ran # << >>
             /\ exec.ran[Len(exec.ran)].hook = exec.err
             /\ exec.pc = Done

\* C14 witness: the parent's GlobalPreRun ran once, then the leaf's PreRun,
\* which returned an error, and Run, PostRun and a GlobalPostRun are set
C14_Witness ==
    /\ exec.node = "n3"
    /\ "GlobalPreRun" \notin lifecycle["n3"]
    /\ {"Run", "PostRun"} \subseteq lifecycle["n3"]
    /\ "GlobalPostRun" \in lifecycle["n1"]
    /\ exec.ran = << [hook |-> "GlobalPreRun", on |-> "n2"],
                     [hook |-> "PreRun", on |-> "n3"] >>
    /\ exec.err = "PreRun"
    /\ exec.pc = Done

\* the greatest of the numbers of S, 0 when there is none
MaxOf(S) == IF S = {} THEN 0 ELSE CHOOSE m \in S : \A k \in S : k <= m

\* C15: after p.Remove(...) the maxLength of p holds, for Use, Path and Name,
\* the greatest length over the children that remain in p, 0 when none remains
C15_RemoveRecomputesMaxLengths ==
    [][(op'.name = "Remove" /\ status' = "running")
         => LET p    == op'.recv
                kept == {x \in Range(commands[p]) : ~InArgs(op'.args, x)}
            IN  maxLength'[p] =
                    [Use  |-> MaxOf({Len(Use[x]) : x \in kept}),
                     Path |-> MaxOf({PathLen(parent', x) : x \in kept}),
                     Name |-> MaxOf({Len(Name(x)) : x \in kept})]]_vars

\* the place of the first x in args, 0 when x is not in args
FirstAt(args, x) ==
    IF \E i \in 1..Len(args) : args[i] = x
    THEN CHOOSE i \in 1..Len(args) :
             args[i] = x /\ \A k \in 1..(i - 1) : args[k] # x
    ELSE 0

\* C16: argsMinusFirstX(args, x) is args without its first x and nothing else
\* changed (one shorter, later x kept, order kept); without an x in args it
\* is args
C16_OnlyFirstXRemoved ==
    op.name = "argsMinusFirstX" =>
        LET args == op.args[1]
            out  == op.ret.out
            at   == FirstAt(args, op.args[2])
        IN  IF at = 0 THEN out = args
            ELSE /\ Len(out) = Len(args) - 1
                 /\ \A k \in 1..Len(out) :
                        out[k] = IF k < at THEN args[k] ELSE args[k + 1]

\* x stands twice in args and the result still holds the later one
C16_Witness ==
    /\ op.name = "argsMinusFirstX"
    /\ Cardinality({i \in 1..Len(op.args[1]) : op.args[1][i] = op.args[2]}) = 2
    /\ Len(op.ret.out) = Len(op.args[1]) - 1
    /\ \E k \in 1..Len(op.ret.out) : op.ret.out[k] = op.args[2]

\* C17: Add on a command with a normalization closure gives that closure to
\* each added child, whatever the child had; Add on a command without one
\* leaves the closures of the children alone; SetGlobalNormalization changes
\* the closure of its receiver and of no command added to it before
C17_NormalizationCopiedAtAdd ==
    [][/\ (op'.name = "Add" /\ status' = "running")
            => \A x \in Nodes :
                   normFn'[x] = IF InArgs(op'.args, x) /\ normFn[op'.recv] # NoFn
                                THEN normFn[op'.recv]
                                ELSE normFn[x]
       /\ op'.name = "SetGlobalNormalization"
            => /\ normFn'[op'.recv] = op'.args[1]
               /\ \A x \in Nodes \ {op'.recv} : normFn'[x] = normFn[x]]_vars

\* a child that took the closure of its parent at Add keeps it after the
\* parent was given another one
C17_Witness ==
    /\ op.name = "SetGlobalNormalization"
    /\ op.args[1] = "fnB"
    /\ \E x \in Range(commands[op.recv]) :
           parent[x] = op.recv /\ normFn[x] = "fnA"

\* C18: the parent references never form a loop, and no call runs out of
\* stack: Add, which takes the Path of the child, always returns or panics
C18_ParentsAcyclic ==
    /\ \A c \in Nodes : ~Loops(parent, c, {c})
    /\ status # "overflow"

\* C19: p.Remove(...) changes the parent reference of no command but those
\* whose parent is p: a command added to p1, then to p2, keeps p2 as its
\* parent when p1 removes it
C19_RemoveTouchesOwnChildrenOnly ==
    [][op'.name = "Remove"
         => \A x \in Nodes : parent'[x] # parent[x] => parent[x] = op'.recv]_vars

\* C20: Commands() does not change what findNext finds: for every token the
\* command found in the list as Commands() leaves it is the command found
\* in the list as it was before
C20_CommandsLeavesDispatchAlone ==
    [][op'.name = "Commands"
         => \A next \in DispatchTokens :
                findNext(commands'[op'.recv], next)
                    = findNext(commands[op'.recv], next)]_vars

====
